---- MODULE Spec2Model ----
(***************************************************************************)
(* A model of the CSP engine and the Nonogram solver of this repository:   *)
(*   - NonogramConstraint.is_satisfied (full match and the feasibility DP), *)
(*   - the generic Solver (backtracking, forward checking, domain trail),  *)
(*   - FastNonogramSolver (line propagation, then residual backtracking).  *)
(* Variables are numbered 1..nvars in Problem order; a constraint is a      *)
(* record [vars, clue] over an ordered list of variable numbers.           *)
(***************************************************************************)
EXTENDS Integers, Sequences, FiniteSets, TLC

VARIABLES
    nvars,      \* len(problem.variables)
    cons,       \* problem.constraints: sequence of [vars, clue]
    value,      \* Variable.value of each variable (None when unassigned)
    domain,     \* Variable.domain of each variable (a list)
    back_up,    \* Solver.back_up: the trail of domain snapshots
    stack,      \* the activation records of backtracking / _backtrack
    pc,         \* where the running call is
    retval,     \* the value returned by the call that last returned
    cidx,       \* FastNonogramSolver.solve: position of the for loop over constraints
    changed,    \* FastNonogramSolver.solve: the local "changed"
    iterations, \* FastNonogramSolver.iterations
    steps,      \* the number of steps taken so far
    solve_ret   \* what Solver.solve has returned to its caller ("pending" before)

vars == <<nvars, cons, value, domain, back_up, stack, pc, retval, cidx, changed, iterations,
          steps, solve_ret>>

\* ---------------------------------------------------------------- bounds

\* Longest single line checked on its own.
MaxLine == 5
\* Most cells (rows * cols) of a grid handed to a solver.
MaxCells == 4
\* Most cells of a grid on which a forward-checking routine is called alone.
MaxFcCells == 4

\* ------------------------------------------------------------- constants

\* Variable.value of an unassigned variable.
None == -1
\* The cap on propagation passes in FastNonogramSolver.solve.
MaxIterations == 100
\* The cap on propagation rounds after a trial in _backtrack.
MaxRounds == 3

\* ---------------------------------------------------------------- helpers

RECURSIVE SumSeq(_)
SumSeq(s) == IF s = <<>> THEN 0 ELSE Head(s) + SumSeq(Tail(s))

\* Python's `x in list`.
InList(x, s) == \E i \in 1..Len(s) : s[i] = x

\* list.remove(x): drops the first occurrence of x.
ListRemove(s, x) ==
    LET i == CHOOSE k \in 1..Len(s) : s[k] = x /\ \A q \in 1..(k - 1) : s[q] # x
    IN  SubSeq(s, 1, i - 1) \o SubSeq(s, i + 1, Len(s))

\* [var.value for var in constraint.variables]
LineValues(val, c) == [i \in 1..Len(c.vars) |-> val[c.vars[i]]]

\* ------------------------------------------------- NonogramConstraint

\* NonogramConstraint.__init__: min_length
min_length(clue) == IF clue # <<>> THEN SumSeq(clue) + Len(clue) - 1 ELSE 0

\* The scan of _matches_clue: blocks of consecutive 1s, left to right.
RECURSIVE ScanBlocks(_, _, _, _)
ScanBlocks(values, i, current_block, blocks) ==
    IF i > Len(values)
    THEN IF current_block > 0 THEN Append(blocks, current_block) ELSE blocks
    ELSE IF values[i] = 1
         THEN ScanBlocks(values, i + 1, current_block + 1, blocks)
         ELSE IF current_block > 0
              THEN ScanBlocks(values, i + 1, 0, Append(blocks, current_block))
              ELSE ScanBlocks(values, i + 1, current_block, blocks)

matches_clue_nolast(values, clue) ==
    IF \E i \in 1..Len(values) : values[i] = None THEN FALSE
    ELSE IF clue = <<>> THEN \A i \in 1..Len(values) : values[i] = 0
    ELSE LET blocks == ScanBlocks(values, 1, 0, <<>>)
         IN  (IF Len(values) > 0 /\ values[Len(values)] = 1
              THEN SubSeq(blocks, 1, Len(blocks) - 1) ELSE blocks) = clue

\* NonogramConstraint._matches_clue
matches_clue(values, clue) ==
    IF \E i \in 1..Len(values) : values[i] = None THEN FALSE
    ELSE IF clue = <<>> THEN \A i \in 1..Len(values) : values[i] = 0
    ELSE ScanBlocks(values, 1, 0, <<>>) = clue

\* One (i, j) cell of the DP loop: the entries it sets, given the table so far.
\* Cells are 0-based as in the code; values is 1-based here, so values[i] of
\* the code is values[i + 1].
DpStep(values, clue, dp, i, j) ==
    LET n == Len(values)
        m == Len(clue)
        case1 == IF i < n /\ values[i + 1] # 1 THEN {<<i + 1, j>>} ELSE {}
        case2 ==
            IF j < m /\ i < n /\ values[i + 1] # 0
            THEN LET block_len == clue[j + 1]
                     can_place == \A k \in 0..(block_len - 1) :
                                      i + k < n /\ values[i + k + 1] # 0
                     next_pos == i + block_len
                 IN  IF ~can_place THEN {}
                     ELSE IF j = m - 1 THEN {<<next_pos, j + 1>>}
                     ELSE IF next_pos < n /\ values[next_pos + 1] # 1
                          THEN {<<next_pos + 1, j + 1>>}
                          ELSE {}
            ELSE {}
    IN  IF <<i, j>> \in dp THEN dp \cup case1 \cup case2 ELSE dp

\* The two nested loops of _dp_check_possible, in the code's order; dp is the
\* set of (i, j) whose table entry is True. k numbers the (i, j) pairs.
RECURSIVE DpLoop(_, _, _, _)
DpLoop(values, clue, dp, k) ==
    LET n == Len(values)
        m == Len(clue)
    IN  IF k >= (n + 1) * (m + 1) THEN dp
        ELSE DpLoop(values, clue,
                    DpStep(values, clue, dp, k \div (m + 1), k % (m + 1)), k + 1)

dp_check_possible_nosep(values, clue) ==
    LET n == Len(values)
        m == Len(clue)
        step(dp, i, j) ==
            LET case1 == IF i < n /\ values[i + 1] # 1 THEN {<<i + 1, j>>} ELSE {}
                case2 ==
                    IF j < m /\ i < n /\ values[i + 1] # 0
                    THEN LET block_len == clue[j + 1]
                             can_place == \A q \in 0..(block_len - 1) :
                                              i + q < n /\ values[i + q + 1] # 0
                         IN  IF can_place THEN {<<i + block_len, j + 1>>} ELSE {}
                    ELSE {}
            IN  IF <<i, j>> \in dp THEN dp \cup case1 \cup case2 ELSE dp
        loop[k \in 0..((n + 1) * (m + 1))] ==
            IF k = 0 THEN {<<0, 0>>}
            ELSE step(loop[k - 1], (k - 1) \div (m + 1), (k - 1) % (m + 1))
    IN  <<n, m>> \in loop[(n + 1) * (m + 1)]

\* NonogramConstraint._dp_check_possible
dp_check_possible(values, clue) ==
    <<Len(values), Len(clue)>> \in DpLoop(values, clue, {<<0, 0>>}, 0)

\* NonogramConstraint._is_partially_consistent (the second definition of the
\* class body, which replaces the first).
is_partially_consistent(values, clue) ==
    IF clue = <<>> THEN \A i \in 1..Len(values) : values[i] # 1
    ELSE LET filled_count == Cardinality({i \in 1..Len(values) : values[i] = 1})
             total_filled_needed == SumSeq(clue)
             empty_count == Cardinality({i \in 1..Len(values) : values[i] = 0})
             total_empty_needed == Len(values) - total_filled_needed
         IN  IF filled_count > total_filled_needed THEN FALSE
             ELSE IF empty_count > total_empty_needed THEN FALSE
             ELSE dp_check_possible(values, clue)

\* NonogramConstraint.is_satisfied, on the values val of the variables.
is_satisfied(val, c) ==
    LET values == LineValues(val, c)
    IN  IF \E i \in 1..Len(values) : values[i] = None
        THEN is_partially_consistent(values, c.clue)
        ELSE matches_clue(values, c.clue)

\* ------------------------------------------------------ inputs (clues)

\* All sequences of positive block lengths that sum to s.
RECURSIVE Compositions(_)
Compositions(s) ==
    IF s = 0 THEN {<<>>}
    ELSE UNION {{<<k>> \o c : c \in Compositions(s - k)} : k \in 1..s}

\* The clues tried on a line of n cells: every clue that fits, and those that
\* overflow the line by one cell.
CluesFor(n) ==
    {c \in UNION {Compositions(s) : s \in 0..(n + 1)} : min_length(c) <= n + 1}

\* ------------------------------------------------- reference definitions

\* The maximal runs of 1s of a 0/1 line, as intervals <<first, last>>.
MaximalRuns(line) ==
    {r \in (1..Len(line)) \X (1..Len(line)) :
        /\ r[1] <= r[2]
        /\ \A i \in r[1]..r[2] : line[i] = 1
        /\ (r[1] = 1 \/ line[r[1] - 1] # 1)
        /\ (r[2] = Len(line) \/ line[r[2] + 1] # 1)}

\* The run decomposition equals the clue: as many runs as blocks, and the run
\* with k-1 runs to its left has the k-th block's length.
RunsEqualClue(line, clue) ==
    LET runs == MaximalRuns(line)
    IN  /\ Cardinality(runs) = Len(clue)
        /\ \A r \in runs :
              clue[Cardinality({q \in runs : q[1] < r[1]}) + 1] = r[2] - r[1] + 1

\* The completions of a partial line: the fixed cells kept, the rest 0 or 1.
Completions(line) ==
    {f \in [1..Len(line) -> {0, 1}] :
        \A i \in 1..Len(line) : line[i] # None => f[i] = line[i]}

FullyAssigned(line) == \A i \in 1..Len(line) : line[i] # None

\* --------------------------------------------------- Variable, Problem

\* Variable.has_value
has_value(val, v) == val[v] # None

\* Problem.get_unassigned_variables, in Problem order.
get_unassigned_variables(val) ==
    SelectSeq([i \in 1..nvars |-> i], LAMBDA v : ~has_value(val, v))

\* Problem.get_constraints(var): the constraints that reference var, in order.
get_constraints(var) == SelectSeq(cons, LAMBDA c : InList(var, c.vars))

\* Variable.neighbors: the other variables sharing a constraint with var,
\* visited in Problem order.
neighbors(var) ==
    SelectSeq([i \in 1..nvars |-> i],
              LAMBDA u : u # var /\ \E k \in 1..Len(cons) :
                             InList(var, cons[k].vars) /\ InList(u, cons[k].vars))

\* NonogramProblem._create_grid_and_constraints: rows * cols variables in
\* row-major order, one constraint per row and then one per column.
GridConstraints(rows, cols, row_clues, column_clues) ==
    [k \in 1..(rows + cols) |->
        IF k <= rows
        THEN [vars |-> [j \in 1..cols |-> (k - 1) * cols + j], clue |-> row_clues[k]]
        ELSE [vars |-> [i \in 1..rows |-> (i - 1) * cols + (k - rows)],
              clue |-> column_clues[k - rows]]]

\* ------------------------------------------------------- generic Solver

\* Solver.is_finished
is_finished(val) ==
    /\ \A k \in 1..Len(cons) : is_satisfied(val, cons[k])
    /\ Len(get_unassigned_variables(val)) = 0

is_consistent_full(val, var) ==
    \A k \in 1..Len(cons) :
        InList(var, cons[k].vars) => matches_clue(LineValues(val, cons[k]), cons[k].clue)

\* Solver.is_consistent
is_consistent(val, var) ==
    \A k \in 1..Len(cons) : InList(var, cons[k].vars) => is_satisfied(val, cons[k])

\* Solver.save_domain: push a copy of every domain.
save_domain(trail, dom) == Append(trail, [i \in 1..nvars |-> dom[i]])

load_domain_keep(trail, dom) ==
    [back_up |-> SubSeq(trail, 1, Len(trail) - 1), domain |-> dom]

\* Solver.load_domain: pop the last snapshot and restore every domain from it.
load_domain(trail, dom) ==
    [back_up |-> SubSeq(trail, 1, Len(trail) - 1),
     domain |-> [i \in 1..nvars |-> trail[Len(trail)][i]]]

\* forward_check, lines 80-86: `for value in tmp` with tmp.remove(value) inside
\* the loop. i is the list iterator's position (1-based) in the list as it is
\* now; a removal shifts the rest left while the position still advances.
RECURSIVE FcValues(_, _, _, _, _)
FcValues(val, var, neighbor, tmp, i) ==
    IF i > Len(tmp) THEN tmp
    ELSE LET v == tmp[i]
             val1 == [val EXCEPT ![neighbor] = v]
             constraints == get_constraints(var)
             violated == \E k \in 1..Len(constraints) :
                             /\ InList(neighbor, constraints[k].vars)
                             /\ ~is_satisfied(val1, constraints[k])
         IN  IF violated
             THEN FcValues(val, var, neighbor, ListRemove(tmp, v), i + 1)
             ELSE FcValues(val, var, neighbor, tmp, i + 1)

RECURSIVE FcNeighbors_noreset(_, _, _, _)
FcNeighbors_noreset(val, dom, var, n) ==
    LET nbs == neighbors(var)
    IN  IF n > Len(nbs) THEN [ok |-> TRUE, val |-> val, dom |-> dom]
        ELSE LET neighbor == nbs[n]
             IN  IF has_value(val, neighbor) THEN FcNeighbors_noreset(val, dom, var, n + 1)
                 ELSE LET tmp == FcValues(val, var, neighbor, dom[neighbor], 1)
                          val1 == IF dom[neighbor] = <<>> THEN val
                                  ELSE [val EXCEPT ![neighbor] = dom[neighbor][Len(dom[neighbor])]]
                      IN  IF Len(tmp) = 0
                          THEN [ok |-> FALSE, val |-> val1, dom |-> dom]
                          ELSE FcNeighbors_noreset(val1, [dom EXCEPT ![neighbor] = tmp],
                                                   var, n + 1)

\* forward_check, lines 76-92: the loop over var.neighbors from position n on.
\* The result is the return value with the values and domains it leaves.
RECURSIVE FcNeighbors(_, _, _, _)
FcNeighbors(val, dom, var, n) ==
    LET nbs == neighbors(var)
    IN  IF n > Len(nbs) THEN [ok |-> TRUE, val |-> val, dom |-> dom]
        ELSE LET neighbor == nbs[n]
             IN  IF has_value(val, neighbor) THEN FcNeighbors(val, dom, var, n + 1)
                 ELSE LET tmp == FcValues(val, var, neighbor, dom[neighbor], 1)
                          val1 == [val EXCEPT ![neighbor] = None]
                      IN  IF Len(tmp) = 0
                          THEN [ok |-> FALSE, val |-> val1, dom |-> dom]
                          ELSE FcNeighbors(val1, [dom EXCEPT ![neighbor] = tmp],
                                           var, n + 1)

\* Solver.forward_check
forward_check(val, dom, var) == FcNeighbors(val, dom, var, 1)

\* A run of a solver over n binary variables takes fewer steps than this: the
\* search tree has fewer than 2^(n+1) calls, each with two trials of at most
\* four steps, and the propagation passes add a few per variable.
StepCap == 16 * 2^nvars + 16 * nvars

\* Every step of a solver is counted, up to StepCap.
Tick == steps < StepCap /\ steps' = steps + 1

\* The activation record on top of the stack.
Top == stack[Len(stack)]
Pop(s) == SubSeq(s, 1, Len(s) - 1)

BtCall_fixed_values ==
    /\ Tick
    /\ pc = "bt_call"
    /\ IF is_finished(value)
       THEN /\ retval' = TRUE
            /\ pc' = "bt_ret"
            /\ stack' = stack
       ELSE IF Len(get_unassigned_variables(value)) = 0
       THEN \* get_unassigned_variables()[0] raises IndexError
            /\ pc' = "raised"
            /\ UNCHANGED <<retval, stack>>
       ELSE LET var == get_unassigned_variables(value)[1]
            IN  /\ stack' = Append(stack, [var |-> var,
                                            ordered_values |-> <<0, 1>>,
                                            idx |-> 1,
                                            pre |-> domain])
                /\ pc' = "bt_loop"
                /\ retval' = retval
    /\ UNCHANGED <<nvars, cons, value, domain, back_up, cidx, changed, iterations, solve_ret>>

\* Solver.backtracking, lines 54-57: entry of a call.
BtCall ==
    /\ Tick
    /\ pc = "bt_call"
    /\ IF is_finished(value)
       THEN /\ retval' = TRUE
            /\ pc' = "bt_ret"
            /\ stack' = stack
       ELSE IF Len(get_unassigned_variables(value)) = 0
       THEN \* get_unassigned_variables()[0] raises IndexError
            /\ pc' = "raised"
            /\ UNCHANGED <<retval, stack>>
       ELSE LET var == get_unassigned_variables(value)[1]
            IN  /\ stack' = Append(stack, [var |-> var,
                                            ordered_values |-> domain[var],
                                            idx |-> 1,
                                            pre |-> domain])
                /\ pc' = "bt_loop"
                /\ retval' = retval
    /\ UNCHANGED <<nvars, cons, value, domain, back_up, cidx, changed, iterations, solve_ret>>

\* Solver.backtracking, lines 58-61: one value trial. The record's pre field
\* notes the domains as they are when the trial's snapshot is pushed.
BtTrial ==
    /\ Tick
    /\ pc = "bt_loop"
    /\ Top.idx <= Len(Top.ordered_values)
    /\ LET var == Top.var
           val1 == [value EXCEPT ![var] = Top.ordered_values[Top.idx]]
           fc == forward_check(val1, domain, var)
       IN  /\ back_up' = save_domain(back_up, domain)
           /\ stack' = [stack EXCEPT ![Len(stack)].pre = domain]
           /\ IF is_consistent(val1, var)
              THEN /\ value' = fc.val
                   /\ domain' = fc.dom
                   /\ pc' = IF fc.ok THEN "bt_call" ELSE "bt_undo"
              ELSE /\ value' = val1
                   /\ domain' = domain
                   /\ pc' = "bt_undo"
    /\ UNCHANGED <<nvars, cons, retval, cidx, changed, iterations, solve_ret>>

BtUndo_keeps_value ==
    /\ Tick
    /\ pc = "bt_undo"
    /\ LET restored == load_domain(back_up, domain)
       IN  /\ back_up' = restored.back_up
           /\ domain' = restored.domain
    /\ stack' = [stack EXCEPT ![Len(stack)].idx = Top.idx + 1]
    /\ pc' = "bt_loop"
    /\ UNCHANGED <<nvars, cons, value, retval, cidx, changed, iterations, solve_ret>>

\* Solver.backtracking, lines 65-66: undo of a failed trial.
BtUndo ==
    /\ Tick
    /\ pc = "bt_undo"
    /\ LET restored == load_domain(back_up, domain)
       IN  /\ value' = [value EXCEPT ![Top.var] = None]
           /\ back_up' = restored.back_up
           /\ domain' = restored.domain
    /\ stack' = [stack EXCEPT ![Len(stack)].idx = Top.idx + 1]
    /\ pc' = "bt_loop"
    /\ UNCHANGED <<nvars, cons, retval, cidx, changed, iterations, solve_ret>>

\* Solver.backtracking, line 67: every value tried, return False.
BtExhaust ==
    /\ Tick
    /\ pc = "bt_loop"
    /\ Top.idx > Len(Top.ordered_values)
    /\ stack' = Pop(stack)
    /\ retval' = FALSE
    /\ pc' = "bt_ret"
    /\ UNCHANGED <<nvars, cons, value, domain, back_up, cidx, changed, iterations, solve_ret>>

\* Solver.backtracking, lines 62-64: the recursive call has returned.
BtReturn ==
    /\ Tick
    /\ pc = "bt_ret"
    /\ stack # <<>>
    /\ IF retval
       THEN /\ stack' = Pop(stack)
            /\ pc' = "bt_ret"
       ELSE /\ stack' = stack
            /\ pc' = "bt_undo"
    /\ UNCHANGED <<nvars, cons, value, domain, back_up, retval, cidx, changed, iterations, solve_ret>>

\* Solver.solve, lines 38-45: what the method hands back once backtracking has
\* returned result. Both branches only print; there is no return statement, so
\* the caller receives None.
solve(result) == "None"

\* Solver.solve, lines 39-45: the top-level backtracking call has returned.
BtDone ==
    /\ Tick
    /\ pc = "bt_ret"
    /\ stack = <<>>
    /\ pc' = "bt_done"
    /\ solve_ret' = solve(retval)
    /\ UNCHANGED <<nvars, cons, value, domain, back_up, stack, retval, cidx, changed, iterations>>

\* A grid of at most MaxCells cells with a clue on every row and column, all
\* variables unassigned with domain [0, 1].
InitGrid ==
    /\ \E rows \in 1..MaxCells, cols \in 1..MaxCells :
          /\ rows * cols <= MaxCells
          /\ nvars = rows * cols
          /\ \E row_clues \in [1..rows -> CluesFor(cols)],
                column_clues \in [1..cols -> CluesFor(rows)] :
                 cons = GridConstraints(rows, cols, row_clues, column_clues)
    /\ value = [v \in 1..nvars |-> None]
    /\ domain = [v \in 1..nvars |-> <<0, 1>>]
    /\ back_up = <<>>
    /\ stack = <<>>
    /\ retval = FALSE
    /\ cidx = 0
    /\ iterations = 0
    /\ steps = 0
    /\ solve_ret = "pending"

InitSolver == InitGrid /\ pc = "bt_call" /\ changed = FALSE

NextSolver == BtCall \/ BtTrial \/ BtUndo \/ BtExhaust \/ BtReturn \/ BtDone

SpecSolver == InitSolver /\ [][NextSolver]_vars

\* A total 0/1 assignment satisfying every constraint exists.
Solutions ==
    {f \in [1..nvars -> {0, 1}] :
        \A k \in 1..Len(cons) : RunsEqualClue(LineValues(f, cons[k]), cons[k].clue)}

Solvable == Solutions # {}
AllUnassigned == \A v \in 1..nvars : value[v] = None

\* The top-level backtracking call has returned, or has raised.
SolverEnded == pc \in {"bt_done", "raised"}

\* Some action of the generic solver can be taken: the disjunction of the
\* guards of BtCall, BtTrial, BtExhaust, BtUndo, BtReturn and BtDone.
SolverCanStep ==
    /\ steps < StepCap
    /\ \/ pc = "bt_call"
       \/ pc = "bt_loop" /\ stack # <<>>
       \/ pc = "bt_undo" /\ stack # <<>> /\ back_up # <<>>
       \/ pc = "bt_ret"

\* C3: on a satisfiable Problem started with every variable unassigned,
\* backtracking terminates (some step is taken until the call has ended, and
\* within StepCap steps) and returns true with every variable assigned and
\* every constraint satisfied.
C3_SolvableTerminatesSolved ==
    \/ /\ SolverEnded \/ SolverCanStep
       /\ pc # "raised"
       /\ pc = "bt_done" => (retval /\ value \in Solutions)
    \/ ~Solvable

C3_Witness ==
    /\ pc = "bt_done"
    /\ retval
    /\ nvars = 4
    /\ Len(cons) = 4
    /\ value = <<0, 1, 1, 0>>
    /\ Len(back_up) > 0

\* C4: on an unsatisfiable Problem started with every variable unassigned,
\* backtracking terminates, does not raise, returns false and leaves every
\* variable unassigned.
C4_UnsolvableTerminatesClean ==
    \/ /\ SolverEnded \/ SolverCanStep
       /\ pc # "raised"
       /\ pc = "bt_done" => (~retval /\ AllUnassigned)
    \/ Solvable

C4_Witness ==
    /\ pc = "bt_done"
    /\ ~retval
    /\ ~Solvable
    /\ nvars = 4
    /\ Len(cons) = 4
    /\ cons[1].clue = <<1>>
    /\ cons[2].clue = <<1>>
    /\ cons[3].clue = <<2>>
    /\ cons[4].clue = <<1>>
    /\ AllUnassigned

\* C5: the undo of a failed value trial leaves every variable's domain equal
\* to the domain it had when that trial's snapshot was pushed.
C5_UndoRestoresDomains ==
    [][(pc = "bt_undo" /\ pc' = "bt_loop") => domain' = Top.pre]_vars

\* A failed trial whose forward checking had narrowed a neighbor's domain.
C5_Witness ==
    /\ pc = "bt_undo"
    /\ stack # <<>>
    /\ domain # Top.pre
    /\ Len(back_up) >= 2

\* C11: Solver.solve returns a boolean to its caller: true exactly when
\* backtracking found a fully consistent total assignment, false otherwise.
C11_SolveReturnsBoolean ==
    pc = "bt_done" =>
        solve_ret = (IF retval /\ value \in Solutions THEN "True" ELSE "False")

\* C13: whenever the top-level backtracking call has returned, with true or
\* with false, the trail back_up is empty.
C13_TrailEmptyOnReturn ==
    (pc = "bt_ret" /\ stack = <<>>) => back_up = <<>>

\* C14: between the steps of backtracking, every variable whose value is set
\* has that value in its current domain.
C14_ValueInDomain ==
    \A v \in 1..nvars : value[v] # None => InList(value[v], domain[v])

\* A variable is assigned while forward checking has narrowed another one's
\* domain and an earlier trial has been undone by load_domain.
C14_Witness ==
    /\ pc = "bt_call"
    /\ nvars = 4
    /\ \E v \in 1..nvars : value[v] # None
    /\ \E v \in 1..nvars : Len(domain[v]) = 1
    /\ \E k \in 1..Len(stack) : stack[k].idx = 2

\* -------------------------------------------------- FastNonogramSolver

\* FastNonogramSolver._generate_all_valid_lines: place_blocks has no body, so
\* the call appends nothing and the list of valid lines is returned empty.
generate_all_valid_lines(current, clue, n) == <<>>

find_definite_cells_noempty(current, clue, n) ==
    [raises |-> FALSE, definite_filled |-> {}, definite_empty |-> {}]

find_definite_cells_anyclue(current, clue, n) ==
    [raises |-> FALSE, definite_filled |-> {},
     definite_empty |-> {i \in 1..n : current[i] = None}]

\* FastNonogramSolver._find_definite_cells. With valid lines at hand, line 269
\* calls set.union with an int, which raises TypeError.
find_definite_cells(current, clue, n) ==
    IF clue = <<>>
    THEN [raises |-> FALSE, definite_filled |-> {},
          definite_empty |-> {i \in 1..n : current[i] = None}]
    ELSE LET valid_lines == generate_all_valid_lines(current, clue, n)
         IN  IF valid_lines = <<>>
             THEN [raises |-> FALSE, definite_filled |-> {}, definite_empty |-> {}]
             ELSE [raises |-> TRUE, definite_filled |-> {}, definite_empty |-> {}]

\* FastNonogramSolver._solve_line: the return value with the values it leaves.
solve_line(val, c) ==
    LET n == Len(c.vars)
        current == LineValues(val, c)
    IN  IF \A i \in 1..n : current[i] # None
        THEN [raises |-> FALSE, changed |-> FALSE, val |-> val]
        ELSE LET d == find_definite_cells(current, c.clue, n)
                 val1 == [v \in 1..nvars |->
                            IF val[v] = None /\ \E i \in d.definite_filled : c.vars[i] = v
                            THEN 1 ELSE val[v]]
                 val2 == [v \in 1..nvars |->
                            IF val1[v] = None /\ \E i \in d.definite_empty : c.vars[i] = v
                            THEN 0 ELSE val1[v]]
             IN  [raises |-> d.raises, changed |-> val2 # val, val |-> val2]

\* One pass `for c in constraints: if _solve_line(c): changed = True`, from
\* constraint k on.
RECURSIVE SolveLines(_, _, _)
SolveLines(val, chg, k) ==
    IF k > Len(cons) THEN [changed |-> chg, val |-> val]
    ELSE LET r == solve_line(val, cons[k])
         IN  SolveLines(r.val, chg \/ r.changed, k + 1)

\* _backtrack, lines 397-404: propagation rounds after a trial.
RECURSIVE PropagateRounds(_, _, _)
PropagateRounds(val, chg, rounds) ==
    IF chg /\ rounds < MaxRounds
    THEN LET r == SolveLines(val, FALSE, 1)
         IN  PropagateRounds(r.val, r.changed, rounds + 1)
    ELSE val

FfTest_zero_only(val, c, u, t) ==
    [has_valid_value |-> is_satisfied([val EXCEPT ![u] = 0], c), val |-> val]

\* _forward_check, lines 350-359: the two test values on one unassigned
\* variable u of constraint c, from test value t on.
RECURSIVE FfTest(_, _, _, _)
FfTest(val, c, u, t) ==
    IF t > 1 THEN [has_valid_value |-> FALSE, val |-> val]
    ELSE LET val1 == [val EXCEPT ![u] = t]
         IN  IF is_satisfied(val1, c)
             THEN [has_valid_value |-> TRUE, val |-> [val1 EXCEPT ![u] = None]]
             ELSE FfTest([val1 EXCEPT ![u] = None], c, u, t + 1)

\* _forward_check, lines 346-363: the unassigned variables of constraint c,
\* from position i of the list taken when the constraint is reached.
RECURSIVE FfVars(_, _, _, _)
FfVars(val, c, unassigned_in_constraint, i) ==
    IF i > Len(unassigned_in_constraint) THEN [ok |-> TRUE, val |-> val]
    ELSE LET r == FfTest(val, c, unassigned_in_constraint[i], 0)
         IN  IF ~r.has_valid_value THEN [ok |-> FALSE, val |-> r.val]
             ELSE FfVars(r.val, c, unassigned_in_constraint, i + 1)

\* _forward_check, lines 343-365: the related constraints from position k on.
RECURSIVE FfConstraints(_, _, _)
FfConstraints(val, related_constraints, k) ==
    IF k > Len(related_constraints) THEN [ok |-> TRUE, val |-> val]
    ELSE LET c == related_constraints[k]
             r == FfVars(val, c, SelectSeq(c.vars, LAMBDA v : ~has_value(val, v)), 1)
         IN  IF ~r.ok THEN r ELSE FfConstraints(r.val, related_constraints, k + 1)

\* FastNonogramSolver._forward_check
forward_check_fast(val, var) == FfConstraints(val, get_constraints(var), 1)

\* sum(1 for v in self.problem.variables if v.has_value)
filled(val) == Cardinality({v \in 1..nvars : has_value(val, v)})

\* solve, lines 142-144: a pass of the while loop begins.
FsPassStart ==
    /\ Tick
    /\ pc = "fs_while"
    /\ changed
    /\ changed' = FALSE
    /\ iterations' = iterations + 1
    /\ cidx' = 1
    /\ pc' = "fs_for"
    /\ UNCHANGED <<nvars, cons, value, domain, back_up, stack, retval, solve_ret>>

\* solve, lines 147-149: _solve_line on the next constraint of the pass.
FsSolveLine ==
    /\ Tick
    /\ pc = "fs_for"
    /\ cidx <= Len(cons)
    /\ LET r == solve_line(value, cons[cidx])
       IN  /\ value' = r.val
           /\ changed' = (changed \/ r.changed)
           /\ pc' = IF r.raises THEN "raised" ELSE "fs_for"
    /\ cidx' = cidx + 1
    /\ UNCHANGED <<nvars, cons, domain, back_up, stack, retval, iterations, solve_ret>>

\* solve, lines 152-162 and the loop test of line 142: the pass is over.
FsPassEnd ==
    /\ Tick
    /\ pc = "fs_for"
    /\ cidx > Len(cons)
    /\ pc' = IF filled(value) = nvars \/ iterations > MaxIterations \/ ~changed
             THEN "fs_check" ELSE "fs_while"
    /\ UNCHANGED <<nvars, cons, value, domain, back_up, stack, retval, cidx, changed,
                   iterations, solve_ret>>

FsCheck_filled_only ==
    /\ Tick
    /\ pc = "fs_check"
    /\ IF filled(value) = nvars
       THEN retval' = TRUE /\ pc' = "fs_done"
       ELSE retval' = retval /\ pc' = "fb_call"
    /\ UNCHANGED <<nvars, cons, value, domain, back_up, stack, cidx, changed, iterations, solve_ret>>

\* solve, lines 168-193: solved after propagation, or on to _backtrack.
FsCheck ==
    /\ Tick
    /\ pc = "fs_check"
    /\ IF filled(value) = nvars /\ \A k \in 1..Len(cons) : is_satisfied(value, cons[k])
       THEN retval' = TRUE /\ pc' = "fs_done"
       ELSE retval' = retval /\ pc' = "fb_call"
    /\ UNCHANGED <<nvars, cons, value, domain, back_up, stack, cidx, changed, iterations, solve_ret>>

\* _backtrack, lines 375-385: entry of a call.
FbCall ==
    /\ Tick
    /\ pc = "fb_call"
    /\ LET unassigned == get_unassigned_variables(value)
       IN  IF Len(unassigned) = 0
           THEN /\ retval' = \A k \in 1..Len(cons) : is_satisfied(value, cons[k])
                /\ pc' = "fb_ret"
                /\ stack' = stack
           ELSE /\ stack' = Append(stack, [var |-> unassigned[1],
                                           ordered_values |-> <<0, 1>>,
                                           idx |-> 1,
                                           pre |-> domain])
                /\ pc' = "fb_loop"
                /\ retval' = retval
    /\ UNCHANGED <<nvars, cons, value, domain, back_up, cidx, changed, iterations, solve_ret>>

\* _backtrack, lines 388-404: one value trial, with the propagation rounds
\* that follow a trial that passes both checks.
FbTrial ==
    /\ Tick
    /\ pc = "fb_loop"
    /\ Top.idx <= Len(Top.ordered_values)
    /\ LET var == Top.var
           val1 == [value EXCEPT ![var] = Top.ordered_values[Top.idx]]
           related_constraints == get_constraints(var)
           fc == forward_check_fast(val1, var)
       IN  IF \A k \in 1..Len(related_constraints) : is_satisfied(val1, related_constraints[k])
           THEN IF fc.ok
                THEN /\ value' = PropagateRounds(fc.val, TRUE, 0)
                     /\ pc' = "fb_call"
                ELSE /\ value' = fc.val
                     /\ pc' = "fb_undo"
           ELSE /\ value' = val1
                /\ pc' = "fb_undo"
    /\ UNCHANGED <<nvars, cons, domain, back_up, stack, retval, cidx, changed, iterations, solve_ret>>

\* _backtrack, line 411: unassign and go on to the next value.
FbUndo ==
    /\ Tick
    /\ pc = "fb_undo"
    /\ value' = [value EXCEPT ![Top.var] = None]
    /\ stack' = [stack EXCEPT ![Len(stack)].idx = Top.idx + 1]
    /\ pc' = "fb_loop"
    /\ UNCHANGED <<nvars, cons, domain, back_up, retval, cidx, changed, iterations, solve_ret>>

\* _backtrack, line 413: both values tried, return False.
FbExhaust ==
    /\ Tick
    /\ pc = "fb_loop"
    /\ Top.idx > Len(Top.ordered_values)
    /\ stack' = Pop(stack)
    /\ retval' = FALSE
    /\ pc' = "fb_ret"
    /\ UNCHANGED <<nvars, cons, value, domain, back_up, cidx, changed, iterations, solve_ret>>

\* _backtrack, lines 407-408: the recursive call has returned.
FbReturn ==
    /\ Tick
    /\ pc = "fb_ret"
    /\ stack # <<>>
    /\ IF retval
       THEN /\ stack' = Pop(stack)
            /\ pc' = "fb_ret"
       ELSE /\ stack' = stack
            /\ pc' = "fb_undo"
    /\ UNCHANGED <<nvars, cons, value, domain, back_up, retval, cidx, changed, iterations, solve_ret>>

\* solve, lines 193-202: _backtrack has returned and solve returns its result.
FsReturn ==
    /\ Tick
    /\ pc = "fb_ret"
    /\ stack = <<>>
    /\ pc' = "fs_done"
    /\ UNCHANGED <<nvars, cons, value, domain, back_up, stack, retval, cidx, changed,
                   iterations, solve_ret>>

\* solve, lines 139-140: changed = True, iterations = 0.
InitFast == InitGrid /\ pc = "fs_while" /\ changed = TRUE

NextFast ==
    \/ FsPassStart \/ FsSolveLine \/ FsPassEnd \/ FsCheck
    \/ FbCall \/ FbTrial \/ FbUndo \/ FbExhaust \/ FbReturn \/ FsReturn

SpecFast == InitFast /\ [][NextFast]_vars

\* Some action of the fast solver can be taken: the disjunction of the guards
\* of the actions of NextFast.
FastCanStep ==
    /\ steps < StepCap
    /\ \/ pc = "fs_while" /\ changed
       \/ pc = "fs_for"
       \/ pc = "fs_check"
       \/ pc = "fb_call"
       \/ pc = "fb_loop" /\ stack # <<>>
       \/ pc = "fb_undo" /\ stack # <<>>
       \/ pc = "fb_ret"

AllAssigned == \A v \in 1..nvars : value[v] # None
AllCluesEmpty == \A k \in 1..Len(cons) : cons[k].clue = <<>>

\* The 1x3 grid with row clue [3] and column clues [1], [1], [1].
IsRow3Puzzle ==
    /\ nvars = 3
    /\ Len(cons) = 4
    /\ cons[1] = [vars |-> <<1, 2, 3>>, clue |-> <<3>>]
    /\ \A k \in 2..4 : cons[k].clue = <<1>>

\* C6: FastNonogramSolver.solve returns true only with every cell assigned and
\* every line constraint satisfied (is_satisfied true, and the runs of every
\* line equal to its clue).
C6_TrueMeansSolved ==
    (pc = "fs_done" /\ retval) =>
        /\ AllAssigned
        /\ \A k \in 1..Len(cons) : is_satisfied(value, cons[k])
        /\ value \in Solutions

C6_Witness ==
    /\ pc = "fs_done"
    /\ retval
    /\ nvars = 4
    /\ Len(cons) = 4
    /\ value = <<1, 1, 0, 1>>

\* C7: FastNonogramSolver.solve terminates on every puzzle (a step can be
\* taken until it has returned, within StepCap steps), and on a satisfiable
\* puzzle started with all cells unassigned it returns true; the 1x3 grid with
\* row clue [3] and column clues [1], [1], [1] ends as 111.
C7_TerminatesAndComplete ==
    /\ pc = "fs_done" \/ FastCanStep
    /\ (pc = "fs_done" /\ Solvable) => retval
    /\ (pc = "fs_done" /\ IsRow3Puzzle) => (retval /\ value = <<1, 1, 1>>)

C7_Witness ==
    /\ pc = "fs_done"
    /\ IsRow3Puzzle
    /\ retval
    /\ value = <<1, 1, 1>>

\* C8: when FastNonogramSolver.solve returns false on a puzzle started with
\* all cells unassigned, every cell is unassigned afterwards.
C8_FalseLeavesAllUnassigned ==
    (pc = "fs_done" /\ ~retval) => AllUnassigned

\* C9: a cell that _solve_line assigns during the propagation passes of solve
\* gets the value it has in every solution of the puzzle that extends the
\* cells fixed before the call.
C9_PropagationSound ==
    [][(pc = "fs_for" /\ cidx <= Len(cons)) =>
          \A v \in 1..nvars :
              (value[v] = None /\ value'[v] # None) =>
                  \A f \in Solutions :
                      (\A u \in 1..nvars : value[u] # None => f[u] = value[u])
                          => f[v] = value'[v]]_vars

\* Propagation has assigned cells of a puzzle that has a solution.
C9_Witness ==
    /\ pc = "fs_for"
    /\ nvars = 4
    /\ Len(cons) = 4
    /\ value = <<None, None, 0, 0>>
    /\ Solutions = {<<1, 1, 0, 0>>}

\* C10: on a grid whose clues are all empty, solve returns true with every
\* cell 0; and _solve_line on a line with an empty clue assigns 0 to each of
\* its unassigned cells and leaves the others as they are.
C10_EmptyCluesGiveZeros ==
    /\ []((pc = "fs_done" /\ AllCluesEmpty) => (retval /\ \A v \in 1..nvars : value[v] = 0))
    /\ [][(pc = "fs_for" /\ cidx <= Len(cons) /\ cons[cidx].clue = <<>>) =>
             \A i \in 1..Len(cons[cidx].vars) :
                 LET v == cons[cidx].vars[i]
                 IN  value'[v] = IF value[v] = None THEN 0 ELSE value[v]]_vars

C10_Witness ==
    /\ pc = "fs_done"
    /\ retval
    /\ AllCluesEmpty
    /\ nvars = 4
    /\ Len(cons) = 4
    /\ value = <<0, 0, 0, 0>>

\* ------------------------------------- the forward-checking routines alone

\* A grid of at most MaxFcCells cells in any partial assignment, with var one
\* of the assigned variables, held by the caller's activation record as in
\* backtracking and _backtrack. Both routines read only the constraints that
\* involve var (get_constraints(var), related_constraints), so the clue of every
\* other line is left empty.
InitForward ==
    /\ \E rows \in 1..MaxFcCells, cols \in 1..MaxFcCells :
          /\ rows * cols <= MaxFcCells
          /\ nvars = rows * cols
          /\ domain = [v \in 1..nvars |-> <<0, 1>>]
          /\ \E var \in 1..(rows * cols), row_clue \in CluesFor(cols),
                column_clue \in CluesFor(rows) :
                 /\ cons = GridConstraints(rows, cols,
                               [r \in 1..rows |->
                                   IF r = ((var - 1) \div cols) + 1 THEN row_clue ELSE <<>>],
                               [c \in 1..cols |->
                                   IF c = ((var - 1) % cols) + 1 THEN column_clue ELSE <<>>])
                 /\ \A k \in 1..Len(cons) :
                        ~InList(var, cons[k].vars) => cons[k].clue = <<>>
                 /\ stack = <<[var |-> var, ordered_values |-> <<0, 1>>, idx |-> 1,
                               pre |-> domain]>>
    /\ value \in [1..nvars -> {0, 1, None}]
    /\ value[Top.var] # None
    /\ back_up = <<>>
    /\ pc = "fc_call"
    /\ retval = FALSE
    /\ cidx = 0
    /\ changed = FALSE
    /\ iterations = 0
    /\ steps = 0
    /\ solve_ret = "pending"

\* Solver.forward_check(var), the whole call.
FcApply ==
    /\ pc = "fc_call"
    /\ LET r == forward_check(value, domain, Top.var)
       IN  /\ value' = r.val
           /\ domain' = r.dom
           /\ retval' = r.ok
    /\ pc' = "fc_done"
    /\ UNCHANGED <<nvars, cons, back_up, stack, cidx, changed, iterations, steps, solve_ret>>

\* FastNonogramSolver._forward_check(var), the whole call.
FfcApply ==
    /\ pc = "fc_call"
    /\ LET r == forward_check_fast(value, Top.var)
       IN  /\ value' = r.val
           /\ retval' = r.ok
    /\ pc' = "ffc_done"
    /\ UNCHANGED <<nvars, cons, domain, back_up, stack, cidx, changed, iterations, steps,
                   solve_ret>>

NextForward == FcApply \/ FfcApply

SpecForward == InitForward /\ [][NextForward]_vars

\* Value x, given to neighbor u alone on top of the assignment val, violates a
\* constraint that involves both u and var.
ViolatesWith(val, var, u, x) ==
    \E k \in 1..Len(cons) :
        /\ InList(u, cons[k].vars)
        /\ InList(var, cons[k].vars)
        /\ ~is_satisfied([val EXCEPT ![u] = x], cons[k])

\* The neighbors of var that have no value.
UnassignedNeighbors(val, var) ==
    {u \in 1..nvars : InList(u, neighbors(var)) /\ val[u] = None}

\* C12: when Solver.forward_check(var) returns true, no unassigned neighbor's
\* domain holds a value that violates a constraint involving the neighbor and
\* var; and it returns false whenever every domain value of some unassigned
\* neighbor violates such a constraint.
C12_ForwardCheckPrunes ==
    [][(pc = "fc_call" /\ pc' = "fc_done") =>
          /\ retval' =>
                \A u \in UnassignedNeighbors(value, Top.var) :
                    \A i \in 1..Len(domain'[u]) :
                        ~ViolatesWith(value, Top.var, u, domain'[u][i])
          /\ (\E u \in UnassignedNeighbors(value, Top.var) :
                 \A i \in 1..Len(domain[u]) :
                     ViolatesWith(value, Top.var, u, domain[u][i]))
                => ~retval']_vars

\* C15: both forward-checking routines leave every variable's value as it was
\* on entry, whatever they return.
C15_ForwardCheckValueNeutral ==
    [][pc = "fc_call" => value' = value]_vars

\* _forward_check has tried both values on an unassigned neighbor and failed.
C15_Witness ==
    /\ pc = "ffc_done"
    /\ ~retval
    /\ nvars = 3
    /\ cons[1] = [vars |-> <<1, 2, 3>>, clue |-> <<3>>]
    /\ Top.var = 1
    /\ value = <<0, None, None>>

\* ------------------------------------------- a single line (is_satisfied)

InitLine ==
    /\ nvars \in 1..MaxLine
    /\ \E clue \in CluesFor(nvars) :
          cons = <<[vars |-> [i \in 1..nvars |-> i], clue |-> clue]>>
    /\ value \in [1..nvars -> {0, 1, None}]
    /\ domain = [v \in 1..nvars |-> <<0, 1>>]
    /\ back_up = <<>>
    /\ stack = <<>>
    /\ pc = "line"
    /\ retval = FALSE
    /\ cidx = 0
    /\ changed = FALSE
    /\ iterations = 0
    /\ steps = 0
    /\ solve_ret = "pending"

\* constraint.is_satisfied() on the line.
LineCheck ==
    /\ pc = "line"
    /\ retval' = is_satisfied(value, cons[1])
    /\ pc' = "line_done"
    /\ UNCHANGED <<nvars, cons, value, domain, back_up, stack, cidx, changed, iterations,
                   steps, solve_ret>>

NextLine == LineCheck

SpecLine == InitLine /\ [][NextLine]_vars

\* The line of the single constraint and its clue.
TheLine == LineValues(value, cons[1])
TheClue == cons[1].clue

\* C1: on a fully assigned line, is_satisfied returns true exactly when the
\* ordered lengths of the maximal runs of 1s equal the clue (with an empty clue:
\* exactly when every cell is 0).
C1_FullLineMatchesRuns ==
    (pc = "line_done" /\ FullyAssigned(TheLine)) =>
        /\ retval <=> RunsEqualClue(TheLine, TheClue)
        /\ TheClue = <<>> => (retval <=> \A i \in 1..Len(TheLine) : TheLine[i] = 0)

C1_Witness ==
    /\ pc = "line_done"
    /\ TheLine = <<1, 1, 0, 1>>
    /\ TheClue = <<2, 1>>
    /\ retval

\* C2: on a line with an unassigned cell, is_satisfied returns true exactly when
\* some completion of the unassigned cells matches the clue.
C2_PartialAgreesWithBruteForce ==
    (pc = "line_done" /\ ~FullyAssigned(TheLine)) =>
        (retval <=> \E f \in Completions(TheLine) : RunsEqualClue(f, TheClue))

C2_Witness ==
    /\ pc = "line_done"
    /\ TheLine = <<None, 1, None, 0, None>>
    /\ TheClue = <<2, 1>>
    /\ retval

C2_WitnessInfeasible ==
    /\ pc = "line_done"
    /\ TheLine = <<None, 1, None, 1>>
    /\ TheClue = <<1, 2>>
    /\ ~retval
====
